---- MODULE Spec2Model ----
(***************************************************************************)
(* Model of intern-bot/watcher.py: one scheduled run of main() after       *)
(* another over a persisted seen.json, with the network, the transports    *)
(* and the file system as the environment.                                 *)
(*                                                                         *)
(* Text is a sequence of one-character strings, so that str.strip and the  *)
(* "company|title|url" key of sha() are computed, not assumed.  The SHA-1  *)
(* hex digest itself is taken as injective on the key and is represented   *)
(* by the key.                                                             *)
(***************************************************************************)
EXTENDS Integers, Sequences, FiniteSets, TLC

(* ------------------------------ bounds -------------------------------- *)
\* distinct postings the web can list
NumPostings == 2
\* recipients in SMS_TO_LIST and in EMAIL_TO_LIST when the channel is configured
MaxRecipients == 2
\* failures the environment injects into one run (a source, a recipient, the
\* SMTP session, the port setting, the state file)
MaxFaults == 1
\* new records of one run when the alert body is composed
MaxNew == 9
\* anchors of a page handed to the card extractor
MaxAnchors == 2
\* lines of a Markdown document handed to the section parser
MaxDocLines == 3
\* data rows of a Markdown table handed to the '0d' filter
MaxRows == 2

(* ------------------------- program constants -------------------------- *)
RETRIES == 2

IL_BASE == << "h", "t", "t", "p", "s", ":", "/", "/", "w", "w", "w", ".", "i", "n", "t",
             "e", "r", "n", "-", "l", "i", "s", "t", ".", "c", "o", "m" >>

\* the categories of IL_TABS, and the part of each tab's URL after IL_BASE
IL_TABS == << "Software Engineering", "Data Analysis",
              "Machine Learning & AI", "Product Management" >>
IL_TAB_QUERIES == << << "/", "?", "k", "=", "s", "w", "e" >>,
                    << "/", "?", "k", "=", "d", "a" >>,
                    << "/", "?", "k", "=", "a", "i", "m", "l" >>,
                    << "/", "?", "k", "=", "p", "m" >> >>
NumTabs == Len(IL_TABS)

GITHUB_OWNERS   == << "SimplifyJobs", "pittcsc" >>
GITHUB_REPOS    == << "Summer2026-Internships" >>
GITHUB_BRANCHES == << "dev", "main", "master" >>
\* the raw URLs, then the ?plain=1 URLs, of every owner, repo and branch
NumReadmeUrls == 2 * Len(GITHUB_OWNERS) * Len(GITHUB_REPOS) * Len(GITHUB_BRANCHES)

\* the categories of SIMPLIFY_SECTIONS, and the heading fragment of each
SIMPLIFY_SECTIONS == << "Product Management", "Software Engineering",
                        "Machine Learning & AI" >>
SIMPLIFY_PHRASES ==
    << << "p", "r", "o", "d", "u", "c", "t", " ", "m", "a", "n", "a", "g", "e", "m", "e",
          "n", "t", " ", "i", "n", "t", "e", "r", "n", "s", "h", "i", "p", " ", "r", "o",
          "l", "e", "s" >>,
       << "s", "o", "f", "t", "w", "a", "r", "e", " ", "e", "n", "g", "i", "n", "e", "e",
          "r", "i", "n", "g", " ", "i", "n", "t", "e", "r", "n", "s", "h", "i", "p", " ",
          "r", "o", "l", "e", "s" >>,
       << "d", "a", "t", "a", " ", "s", "c", "i", "e", "n", "c", "e", " ", "a", "i", " ",
          "&", " ", "m", "a", "c", "h", "i", "n", "e", " ", "l", "e", "a", "r", "n", "i",
          "n", "g", " ", "i", "n", "t", "e", "r", "n", "s", "h", "i", "p", " ", "r", "o",
          "l", "e", "s" >> >>

\* the cap of the alert: new[:6], len(new) <= 6, len(new)-6
BATCH_CAP == 6

(* ------------------------------- text --------------------------------- *)
Whitespace == { " ", "\t", "\n" }

\* tab, newline and the printable ASCII characters but the backquote, in
\* code-point order
Alphabet == << "\t", "\n", " ", "!", "\"", "#", "$", "%", "&", "'", "(", ")", "*", "+",
               ",", "-", ".", "/", "0", "1", "2", "3", "4", "5", "6", "7", "8", "9",
               ":", ";", "<", "=", ">", "?", "@", "A", "B", "C", "D", "E", "F", "G",
               "H", "I", "J", "K", "L", "M", "N", "O", "P", "Q", "R", "S", "T", "U",
               "V", "W", "X", "Y", "Z", "[", "\\", "]", "^", "_", "a", "b", "c",
               "d", "e", "f", "g", "h", "i", "j", "k", "l", "m", "n", "o", "p", "q",
               "r", "s", "t", "u", "v", "w", "x", "y", "z", "{", "|", "}", "~" >>

CharRank(c) == CHOOSE k \in 1..Len(Alphabet) : Alphabet[k] = c

RECURSIVE lstrip(_)
lstrip(s) ==
    IF s = << >> THEN s
    ELSE IF Head(s) \in Whitespace THEN lstrip(Tail(s)) ELSE s

RECURSIVE rstrip(_)
rstrip(s) ==
    IF s = << >> THEN s
    ELSE IF s[Len(s)] \in Whitespace THEN rstrip(SubSeq(s, 1, Len(s) - 1)) ELSE s

\* str.strip()
strip(s) == rstrip(lstrip(s))

\* the order of Python's str comparison
RECURSIVE StrLess(_, _)
StrLess(a, b) ==
    IF b = << >> THEN FALSE
    ELSE IF a = << >> THEN TRUE
    ELSE IF Head(a) = Head(b) THEN StrLess(Tail(a), Tail(b))
    ELSE CharRank(Head(a)) < CharRank(Head(b))

\* sorted(list(S))
RECURSIVE sorted(_)
sorted(S) ==
    IF S = {} THEN << >>
    ELSE LET m == CHOOSE x \in S : \A y \in S \ {x} : StrLess(x, y)
         IN  << m >> \o sorted(S \ {m})

\* set(list)
SetOf(seq) == { seq[k] : k \in 1..Len(seq) }

\* str(n) of a natural number
RECURSIVE Decimal(_)
Decimal(n) ==
    IF n < 10 THEN << << "0", "1", "2", "3", "4", "5", "6", "7", "8", "9" >>[n + 1] >>
    ELSE Decimal(n \div 10) \o Decimal(n % 10)

UpperCase == << "A", "B", "C", "D", "E", "F", "G", "H", "I", "J", "K", "L", "M",
               "N", "O", "P", "Q", "R", "S", "T", "U", "V", "W", "X", "Y", "Z" >>
LowerCase == << "a", "b", "c", "d", "e", "f", "g", "h", "i", "j", "k", "l", "m",
               "n", "o", "p", "q", "r", "s", "t", "u", "v", "w", "x", "y", "z" >>
\* the Age of a row posted today
ZeroDays  == << "0", "d" >>
Digits    == { "0", "1", "2", "3", "4", "5", "6", "7", "8", "9" }

\* str.lower()
lower(s) ==
    [ k \in 1..Len(s) |->
        IF \E u \in 1..Len(UpperCase) : UpperCase[u] = s[k]
        THEN LowerCase[CHOOSE u \in 1..Len(UpperCase) : UpperCase[u] = s[k]]
        ELSE s[k] ]

\* s.startswith(p), s.endswith(p), p in s
StartsWith(s, p) == Len(p) <= Len(s) /\ SubSeq(s, 1, Len(p)) = p
EndsWith(s, p)   == Len(p) <= Len(s) /\ SubSeq(s, Len(s) - Len(p) + 1, Len(s)) = p
Contains(s, p)   == \E i \in 1..(Len(s) - Len(p) + 1) : SubSeq(s, i, i + Len(p) - 1) = p

(* ------------------------------ records ------------------------------- *)
\* posted is the value of meta["posted"], << >> when there is no meta: the
\* dict then has no such key and item.get("posted") is None
normalize_item(source, category, title, url, company, location, posted) ==
    [ source   |-> source,
      category |-> category,
      title    |-> strip(title),
      company  |-> strip(company),
      location |-> strip(location),
      url      |-> strip(url),
      posted   |-> posted ]

\* sha without the strip() calls
sha_untrimmed(item) ==
    item.company \o << "|" >> \o item.title \o << "|" >> \o item.url

\* sha(item): the dedup key "company|title|url" of the trimmed fields
sha(item) ==
    strip(item.company) \o << "|" >> \o strip(item.title) \o << "|" >> \o strip(item.url)

(* ---------------------------- HTTP fetch ------------------------------- *)
\* what one requests.get + raise_for_status can end in
AttemptKinds == { "ok", "timeout", "http_error" }

\* A response plan: what the server answers to the 1st, 2nd, ... attempt.
ResponsePlan(pattern, text) ==
    [ k \in 1..(RETRIES + 1) |->
        [ ok |-> pattern[k] = "ok", text |-> text, err |-> << pattern[k], k >> ] ]

Patterns == [ 1..(RETRIES + 1) -> AttemptKinds ]

NoError == << "none", 0 >>

\* the for-loop of fetch(): `attempt` attempts have failed so far
RECURSIVE fetch_loop(_, _, _, _)
fetch_loop(url, resp, attempt, last_err) ==
    IF attempt = RETRIES + 1
    THEN [ status |-> "raise", url |-> url, last_err |-> last_err,
           attempts |-> attempt, ua |-> "secondary" ]
    ELSE LET r == resp[attempt + 1]
             ua == IF attempt = RETRIES THEN "secondary" ELSE "primary"
         IN  IF r.ok
             THEN [ status |-> "return", url |-> url, text |-> r.text,
                    last_err |-> last_err, attempts |-> attempt + 1, ua |-> ua ]
             ELSE fetch_loop(url, resp, attempt + 1, r.err)

\* fetch with the loop written as range(RETRIES): one attempt too few
fetch_one_attempt_short(url, resp) ==
    IF \A k \in 1..RETRIES : ~resp[k].ok
    THEN [ status |-> "raise", url |-> url, last_err |-> resp[RETRIES].err,
           attempts |-> RETRIES, ua |-> "primary" ]
    ELSE fetch_loop(url, resp, 0, NoError)

fetch(url, resp) == fetch_loop(url, resp, 0, NoError)

(* ------------------------- state file (seen.json) ---------------------- *)
\* The file is absent, holds a JSON list (legacy), holds the JSON object
\* save_state writes, is empty (opened for writing, nothing written yet),
\* or holds the beginning of a dump.  A file written by something else may
\* also hold valid JSON that is neither a list nor an object ("scalar": a
\* number, a string, null), or an object whose "seen" is not iterable
\* ("dict_bad_seen": {"seen": 5}).
FileKinds == { "missing", "list", "dict", "empty", "partial", "scalar", "dict_bad_seen" }

File(kind, seen, flag) == [ kind |-> kind, seen |-> seen, no_new_notified |-> flag ]
MissingFile == File("missing", << >>, FALSE)
EmptyFile   == File("empty", << >>, FALSE)
PartialFile == File("partial", << >>, FALSE)
ScalarFile  == File("scalar", << >>, FALSE)
BadSeenFile == File("dict_bad_seen", << >>, FALSE)

\* json.load raises on an empty or a cut-off file and the except clause
\* falls through to the empty state, as a value that is neither a list nor a
\* dict does; a dict is returned as it is, whatever it holds ("iterable":
\* whether set() accepts its "seen")
_init_state(file) ==
    IF file.kind = "missing"
    THEN [ seen |-> << >>, no_new_notified |-> FALSE, iterable |-> TRUE ]
    ELSE IF file.kind = "list"
    THEN [ seen |-> file.seen, no_new_notified |-> FALSE, iterable |-> TRUE ]
    ELSE IF file.kind \in { "dict", "dict_bad_seen" }
    THEN [ seen |-> file.seen, no_new_notified |-> file.no_new_notified,
           iterable |-> file.kind = "dict" ]
    ELSE [ seen |-> << >>, no_new_notified |-> FALSE, iterable |-> TRUE ]

\* set(state["seen"]) raises TypeError on a value that is not iterable;
\* nothing catches it before the __main__ guard
load_seen_set_and_flag(file) ==
    LET state == _init_state(file)
    IN  [ raised |-> ~state.iterable,
          seen_set |-> IF state.iterable THEN SetOf(state.seen) ELSE {},
          no_new_notified |-> state.iterable /\ state.no_new_notified ]

\* save_state writing the bare list of the old format
StateToDump_list_only(seen, flag) == File("list", sorted(seen), FALSE)

\* the object save_state hands to json.dump
StateToDump(seen, flag) == File("dict", sorted(seen), flag)

(* --------------------------- what the sites serve ---------------------- *)
\* A snapshot of the sites: postings 1..m are listed, posting n on tab
\* TabOf(n); with `readme` the README's Software Engineering table lists the
\* same postings too, newest first.
Webs == [ m : 0..NumPostings, readme : BOOLEAN ]

\* snapshots that list more postings than one alert itemizes
BatchWebs == [ m : (BATCH_CAP + 1)..MaxNew, readme : BOOLEAN ]

TabOf(n) == ((n - 1) % NumTabs) + 1

CompanyOf(n) == << "C", "o" >> \o Decimal(n)
TitleOf(n)   == << "S", "W", "E", " ", "I", "n", "t", "e", "r", "n", " " >> \o Decimal(n)
PathOf(n)    == << "/", "j", "/" >> \o Decimal(n)
UrlOf(n)     == IL_BASE \o PathOf(n)

\* An anchor of a page, as BeautifulSoup hands it over: href is a.get("href"),
\* text is a.get_text(strip=True), at is what the pattern
\* \b(?:at|@)\s+([A-Za-z0-9.&' -]{2,}) captures in the text of the parent,
\* << >> when it does not match.
Anchor(href, text, at) == [ href |-> href, text |-> text, at |-> at ]

\* the anchor of posting n as the tab page shows it: an internal link; the
\* captured company comes with its trailing blank
Card(n) == Anchor(PathOf(n), TitleOf(n), CompanyOf(n) \o << " " >>)

\* the link of tab i in the navigation of every page
NavAnchor(i) ==
    Anchor(IL_TAB_QUERIES[i], << "I", "n", "t", "e", "r", "n", "s", " " >> \o Decimal(i), << >>)

RECURSIVE CardsFrom(_, _, _)
CardsFrom(site, i, n) ==
    IF n > site.m THEN << >>
    ELSE (IF TabOf(n) = i THEN << Card(n) >> ELSE << >>) \o CardsFrom(site, i, n + 1)

\* the page of tab i: the link to itself, then its cards, and whether the
\* parser chokes on it
TabPage(site, i, malformed) ==
    [ raises |-> malformed, anchors |-> << NavAnchor(i) >> \o CardsFrom(site, i, 1) ]

\* one table line of the cells
RECURSIVE TableLine(_)
TableLine(cells) ==
    IF cells = << >> THEN << "|" >>
    ELSE << "|", " " >> \o Head(cells) \o << " " >> \o TableLine(Tail(cells))

\* the row of posting n in the README: posted today, the link in the
\* Application cell
Row(n) ==
    TableLine(<< CompanyOf(n), TitleOf(n), << "N", "A" >>,
                 << "[", "A", "p", "p", "l", "y", "]", "(" >> \o UrlOf(n) \o << ")" >>,
                 ZeroDays >>)

RECURSIVE RowsDown(_)
RowsDown(n) == IF n = 0 THEN << >> ELSE << Row(n) >> \o RowsDown(n - 1)

\* the "## " headings of the README's three tables, in SIMPLIFY_SECTIONS
\* order
README_HEADINGS ==
    << << "#", "#", " ", "P", "r", "o", "d", "u", "c", "t", " ", "M", "a", "n", "a", "g",
          "e", "m", "e", "n", "t", " ", "I", "n", "t", "e", "r", "n", "s", "h", "i", "p",
          " ", "R", "o", "l", "e", "s" >>,
       << "#", "#", " ", "S", "o", "f", "t", "w", "a", "r", "e", " ", "E", "n", "g", "i",
          "n", "e", "e", "r", "i", "n", "g", " ", "I", "n", "t", "e", "r", "n", "s", "h",
          "i", "p", " ", "R", "o", "l", "e", "s" >>,
       << "#", "#", " ", "D", "a", "t", "a", " ", "S", "c", "i", "e", "n", "c", "e", ",",
          " ", "A", "I", " ", "&", " ", "M", "a", "c", "h", "i", "n", "e", " ", "L", "e",
          "a", "r", "n", "i", "n", "g", " ", "I", "n", "t", "e", "r", "n", "s", "h", "i",
          "p", " ", "R", "o", "l", "e", "s" >> >>

TableHead ==
    << TableLine(<< << "C", "o", "m", "p", "a", "n", "y" >>, << "R", "o", "l", "e" >>,
                    << "L", "o", "c", "a", "t", "i", "o", "n" >>,
                    << "A", "p", "p", "l", "i", "c", "a", "t", "i", "o", "n" >>,
                    << "A", "g", "e" >> >>),
       << "|", "-", "-", "-", "|", "-", "-", "-", "|", "-", "-", "-", "|", "-", "-", "-", "|",
          "-", "-", "-", "|" >> >>

RECURSIVE ReadmeLines(_, _)
ReadmeLines(site, k) ==
    IF k > Len(SIMPLIFY_SECTIONS) THEN << >>
    ELSE << README_HEADINGS[k] >> \o TableHead
         \o (IF SIMPLIFY_SECTIONS[k] = "Software Engineering" /\ site.readme
             THEN RowsDown(site.m) ELSE << >>)
         \o ReadmeLines(site, k + 1)

\* the README: its lines, and the section (0: none) whose parsing raises
ReadmeDoc(site, badsec) ==
    [ nonempty |-> TRUE, badsec |-> badsec, lines |-> ReadmeLines(site, 1) ]

EmptyDoc == [ nonempty |-> FALSE, badsec |-> 0, lines |-> << >> ]

(* ------------------------------ extraction ----------------------------- *)
\* uniq[it["url"]] = it ; list(uniq.values()): one record per URL, at the
\* place of the first, with the fields of the last
RECURSIVE UniqByUrl(_, _)
UniqByUrl(items, acc) ==
    IF items = << >> THEN acc
    ELSE LET it == Head(items)
             at == { k \in 1..Len(acc) : acc[k].url = it.url }
         IN  IF at = {} THEN UniqByUrl(Tail(items), Append(acc, it))
             ELSE UniqByUrl(Tail(items),
                            [ k \in 1..Len(acc) |-> IF k \in at THEN it ELSE acc[k] ])

_absolute(url) ==
    IF url = << >> THEN << >>
    ELSE IF StartsWith(url, << "h", "t", "t", "p", ":", "/", "/" >>)
            \/ StartsWith(url, << "h", "t", "t", "p", "s", ":", "/", "/" >>) THEN url
    ELSE IF StartsWith(url, << "/" >>) THEN IL_BASE \o url
    ELSE IL_BASE \o << "/" >> \o url

Intern == << "i", "n", "t", "e", "r", "n" >>

\* hrefs that are no postings
SkippedHrefParts ==
    { << "#" >>, << "/", "p", "r", "i", "v", "a", "c", "y" >>, << "/", "t", "e", "r", "m", "s" >>,
      << "m", "a", "i", "l", "t", "o", ":" >>,
      << "j", "a", "v", "a", "s", "c", "r", "i", "p", "t", ":" >>,
      << "/", "s", "i", "t", "e", "m", "a", "p" >> }

TabLinks == { << "/" >> } \cup { IL_TAB_QUERIES[i] : i \in 1..NumTabs }

\* A) the internal links that look like a posting
InternalPost(a) ==
    LET low == lower(a.href)
    IN  /\ a.href # << >> /\ a.text # << >>
        /\ \A part \in SkippedHrefParts : ~Contains(low, part)
        /\ StartsWith(low, << "/" >>) /\ low \notin TabLinks
        /\ (Contains(lower(a.text), Intern) \/ Contains(low, Intern))

\* B) the links selected by a[href^='http'] that mention "intern" and are
\* not a link to a tab
ExternalPost(a) ==
    /\ StartsWith(a.href, << "h", "t", "t", "p" >>)
    /\ a.href # << >> /\ a.text # << >>
    /\ Contains(lower(a.text) \o << " " >> \o lower(a.href), Intern)
    /\ ~(StartsWith(a.href, IL_BASE)
         /\ \E i \in 1..NumTabs : EndsWith(a.href, IL_TAB_QUERIES[i]))

_extract_cards_from_search(page, category) ==
    IF page.raises THEN [ raised |-> TRUE, items |-> << >> ]
    ELSE LET internal == SelectSeq(page.anchors, InternalPost)
             external == SelectSeq(page.anchors, ExternalPost)
             items == IF internal # << >>
                      THEN [ k \in 1..Len(internal) |->
                               normalize_item("Intern List", category, internal[k].text,
                                              _absolute(internal[k].href), internal[k].at,
                                              << >>, << >>) ]
                      ELSE [ k \in 1..Len(external) |->
                               normalize_item("Intern List", category, external[k].text,
                                              external[k].href, << >>, << >>, << >>) ]
         IN  [ raised |-> FALSE, items |-> UniqByUrl(items, << >>) ]

\* parse_intern_list_tab: fetch, then extract; either may raise
parse_intern_list_tab(category, url, resp) ==
    LET r == fetch(url, resp)
    IN  IF r.status = "raise" THEN [ raised |-> TRUE, items |-> << >> ]
        ELSE _extract_cards_from_search(r.text, category)

(* ------------------------------ Markdown ------------------------------- *)
\* characters re's [\w\s&/+-] keeps
NormKept ==
    SetOf(LowerCase) \cup SetOf(UpperCase) \cup Digits \cup { "_", "&", "/", "+", "-" }
    \cup Whitespace

\* _norm: lower case, everything but [\w\s&/+-] to a blank, runs of
\* whitespace to one blank, trimmed.  (The emoji classes of the first
\* substitution have no character in Alphabet.)
_norm(s) ==
    LET low == lower(s)
        t   == [ k \in 1..Len(s) |-> IF low[k] \in NormKept THEN low[k] ELSE " " ]
        \* the places that stay: every character but the whitespace
        \* that follows whitespace or opens the text
        P   == SelectSeq([ k \in 1..Len(t) |-> k ],
                         LAMBDA k : t[k] \notin Whitespace
                                    \/ (k > 1 /\ t[k - 1] \notin Whitespace))
    IN  rstrip([ j \in 1..Len(P) |-> IF t[P[j]] \in Whitespace THEN " " ELSE t[P[j]] ])

\* str.lstrip(chars), str.rstrip(chars), str.strip(chars)
RECURSIVE lstrip_of(_, _)
lstrip_of(s, cs) ==
    IF s = << >> THEN s
    ELSE IF Head(s) \in cs THEN lstrip_of(Tail(s), cs) ELSE s

RECURSIVE rstrip_of(_, _)
rstrip_of(s, cs) ==
    IF s = << >> THEN s
    ELSE IF s[Len(s)] \in cs THEN rstrip_of(SubSeq(s, 1, Len(s) - 1), cs) ELSE s

strip_of(s, cs) == rstrip_of(lstrip_of(s, cs), cs)

H2 == << "#", "#", " " >>

\* the loop of _iter_section_lines from line i on: a "## " heading that
\* contains the target opens the section (or, inside it, is skipped), any
\* other "## " heading inside the section ends it, every other line inside
\* the section is yielded
RECURSIVE iter_from(_, _, _, _)
iter_from(lines, target, i, in_section) ==
    IF i > Len(lines) THEN << >>
    ELSE LET line == lines[i]
         IN  IF StartsWith(line, H2)
             THEN IF Contains(_norm(strip(lstrip_of(line, { "#", " " }))), target)
                  THEN iter_from(lines, target, i + 1, TRUE)
                  ELSE IF in_section THEN << >>
                  ELSE iter_from(lines, target, i + 1, in_section)
             ELSE (IF in_section THEN << line >> ELSE << >>)
                  \o iter_from(lines, target, i + 1, in_section)

_iter_section_lines(lines, section_phrase) ==
    iter_from(lines, _norm(section_phrase), 1, FALSE)

\* str.split(c)
RECURSIVE split(_, _)
split(s, c) ==
    IF \A k \in 1..Len(s) : s[k] # c THEN << s >>
    ELSE LET i == CHOOSE k \in 1..Len(s) : s[k] = c /\ \A j \in 1..(k - 1) : s[j] # c
         IN  << SubSeq(s, 1, i - 1) >> \o split(SubSeq(s, i + 1, Len(s)), c)

\* re.fullmatch(r"\|\s*[-:\s]+\|.*", line): between the first bar and the
\* second there is at least one character, and only "-", ":" and whitespace
IsSeparator(line) ==
    /\ StartsWith(line, << "|" >>)
    /\ \E j \in 3..Len(line) :
          /\ line[j] = "|"
          /\ \A k \in 2..(j - 1) : line[k] \in { "-", ":" } \cup Whitespace

\* cols of one table line
ColsOf(line) ==
    LET cells == split(strip_of(strip(line), { "|" }), "|")
    IN  [ k \in 1..Len(cells) |-> strip(cells[k]) ]

\* _parse_markdown_table_lines: the cols of the lines that begin with a bar
\* and are no separator
_parse_markdown_table_lines(section_lines) ==
    LET rows == SelectSeq(section_lines,
                          LAMBDA line : StartsWith(line, << "|" >>) /\ ~IsSeparator(line))
    IN  [ k \in 1..Len(rows) |-> ColsOf(rows[k]) ]

\* re.sub(r"\[(.*?)\]\(.*?\)", r"\1", cell): every [text](target) becomes
\* text, leftmost first
RECURSIVE _md_link_text(_)
_md_link_text(s) ==
    LET Closes(i, j) == /\ s[j] = "]" /\ j + 1 <= Len(s) /\ s[j + 1] = "("
                        /\ \E k \in (j + 2)..Len(s) : s[k] = ")"
        Opens(i) == s[i] = "[" /\ \E j \in (i + 1)..Len(s) : Closes(i, j)
    IN  IF \A i \in 1..Len(s) : ~Opens(i) THEN s
        ELSE LET i == CHOOSE a \in 1..Len(s) : Opens(a) /\ \A b \in 1..(a - 1) : ~Opens(b)
                 j == CHOOSE a \in (i + 1)..Len(s) :
                         Closes(i, a) /\ \A b \in (i + 1)..(a - 1) : ~Closes(i, b)
                 k == CHOOSE a \in (j + 2)..Len(s) :
                         s[a] = ")" /\ \A b \in (j + 2)..(a - 1) : s[b] # ")"
             IN  SubSeq(s, 1, i - 1) \o SubSeq(s, i + 1, j - 1)
                 \o _md_link_text(SubSeq(s, k + 1, Len(s)))

\* re.search(r"\((https?://[^\)]+)\)", cell): the first parenthesis that
\* opens with http:// or https://, has one more character at least and is
\* closed; << >> when there is none
_md_first_url(s) ==
    LET After(i) == SubSeq(s, i + 1, Len(s))
        Scheme(i) == IF StartsWith(After(i), << "h", "t", "t", "p", ":", "/", "/" >>) THEN 7
                     ELSE IF StartsWith(After(i), << "h", "t", "t", "p", "s", ":", "/", "/" >>)
                     THEN 8 ELSE 0
        Match(i) == /\ s[i] = "(" /\ Scheme(i) > 0
                    /\ i + Scheme(i) + 1 <= Len(s) /\ s[i + Scheme(i) + 1] # ")"
                    /\ \E k \in (i + Scheme(i) + 2)..Len(s) : s[k] = ")"
    IN  IF \A i \in 1..Len(s) : ~Match(i) THEN << >>
        ELSE LET i == CHOOSE a \in 1..Len(s) : Match(a) /\ \A b \in 1..(a - 1) : ~Match(b)
                 k == CHOOSE a \in (i + 1)..Len(s) :
                         s[a] = ")" /\ \A b \in (i + 1)..(a - 1) : s[b] # ")"
             IN  SubSeq(s, i + 1, k - 1)

\* age_idx, counted from 1; 0 when the first row has no cell "age"
AgeIdx(rows) ==
    LET header == rows[1]
        ages   == { h \in 1..Len(header) : lower(header[h]) = << "a", "g", "e" >> }
    IN  IF ages = {} THEN 0 ELSE CHOOSE h \in ages : \A g \in ages : h <= g

\* the '0d' filter with the Age cell looked for "0d" anywhere in it
Is0d_contains(cols, age_idx) ==
    IF age_idx # 0 /\ age_idx <= Len(cols)
    THEN Contains(_norm(cols[age_idx]), ZeroDays)
    ELSE \E c \in 1..Len(cols) :
            _norm(cols[c]) = ZeroDays \/ Contains(_norm(cols[c]), << " " >> \o ZeroDays)

\* the '0d' filter of one row
Is0d(cols, age_idx) ==
    IF age_idx # 0 /\ age_idx <= Len(cols)
    THEN _norm(cols[age_idx]) = ZeroDays
    ELSE \E c \in 1..Len(cols) :
            _norm(cols[c]) = ZeroDays \/ Contains(_norm(cols[c]), << " " >> \o ZeroDays)

\* the rows that get as far as the url: no header row, four cells or more,
\* 0d
Passes(cols, age_idx) ==
    /\ \A c \in 1..Len(cols) : lower(cols[c]) # << "c", "o", "m", "p", "a", "n", "y" >>
    /\ Len(cols) >= 4
    /\ Is0d(cols, age_idx)

\* the record of a row that passes; its url may be empty
RowItem(category, cols) ==
    normalize_item("SimplifyJobs 2026", category, _md_link_text(cols[2]),
                   _md_first_url(cols[4]), _md_link_text(cols[1]), cols[3],
                   IF \E c \in 5..Len(cols) : Contains(_norm(cols[c]), ZeroDays)
                   THEN ZeroDays ELSE << >>)

\* the body of the try of one section: the records of its rows
SectionRecords(lines, k) ==
    LET rows == _parse_markdown_table_lines(_iter_section_lines(lines, SIMPLIFY_PHRASES[k]))
    IN  IF rows = << >> THEN << >>
        ELSE LET age_idx == AgeIdx(rows)
                 passing == SelectSeq(rows, LAMBDA cols : Passes(cols, age_idx))
                 items   == [ j \in 1..Len(passing) |->
                                RowItem(SIMPLIFY_SECTIONS[k], passing[j]) ]
             IN  SelectSeq(items, LAMBDA it : it.url # << >>)

\* _fetch_2026_readme: the first URL that fetches a non-empty text wins
RECURSIVE readme_probe(_, _)
readme_probe(net, k) ==
    IF k > NumReadmeUrls THEN EmptyDoc
    ELSE LET r == fetch(k, net[k])
         IN  IF r.status = "return" /\ r.text.nonempty THEN r.text
             ELSE readme_probe(net, k + 1)

_fetch_2026_readme(net) == readme_probe(net, 1)

\* The texts the sites serve, parsed once:
\* ParsedReadmes[lines][k] = SectionRecords(lines, k).
ParsedReadmes ==
    [ lines \in { ReadmeLines(w, 1) : w \in Webs \cup BatchWebs } |->
        [ k \in 1..Len(SIMPLIFY_SECTIONS) |-> SectionRecords(lines, k) ] ]

\* the records of section k; the section whose parsing raises does so
\* before its first row is appended, and the except clause of the section
\* loop goes on to the next section
SectionItems(md, k) ==
    IF md.badsec = k THEN << >>
    ELSE IF md.lines \in DOMAIN ParsedReadmes THEN ParsedReadmes[md.lines][k]
    ELSE SectionRecords(md.lines, k)

RECURSIVE SectionsFrom(_, _)
SectionsFrom(md, k) ==
    IF k > Len(SIMPLIFY_SECTIONS) THEN << >>
    ELSE SectionItems(md, k) \o SectionsFrom(md, k + 1)

parse_simplify_2026_age0(net) ==
    LET md == _fetch_2026_readme(net)
    IN  IF ~md.nonempty THEN [ raised |-> FALSE, fetched |-> FALSE, items |-> << >> ]
        ELSE [ raised |-> FALSE, fetched |-> TRUE, items |-> SectionsFrom(md, 1) ]

\* what the network does to the README URLs: the URLs before `first` all
\* time out (miss = "timeout") or serve an empty text (miss = "empty"), the
\* others serve the document
ReadmeNet(doc, first, miss) ==
    [ k \in 1..NumReadmeUrls |->
        IF k >= first THEN ResponsePlan([ a \in 1..(RETRIES + 1) |-> "ok" ], doc)
        ELSE IF miss = "empty"
             THEN ResponsePlan([ a \in 1..(RETRIES + 1) |-> "ok" ], EmptyDoc)
             ELSE ResponsePlan([ a \in 1..(RETRIES + 1) |-> "timeout" ], doc) ]

(* -------------------------------- main --------------------------------- *)
\* the same without the except clause: the exception leaves main
main_try_no_except(outcome) ==
    [ abort |-> outcome.raised, items |-> IF outcome.raised THEN << >> ELSE outcome.items ]

\* try: ... except Exception: log(...) around one source in main
main_try(outcome) ==
    [ abort |-> FALSE, items |-> IF outcome.raised THEN << >> ELSE outcome.items ]

\* the loop without seen_set.add(key)
RECURSIVE dedupe_no_add(_, _, _)
dedupe_no_add(items, seen, new_items) ==
    IF items = << >> THEN [ new |-> new_items, seen_set |-> seen ]
    ELSE IF sha(Head(items)) \notin seen
         THEN dedupe_no_add(Tail(items), seen, Append(new_items, Head(items)))
         ELSE dedupe_no_add(Tail(items), seen, new_items)

\* the loop with new.insert(0, it) for new.append(it)
RECURSIVE dedupe_prepends(_, _, _)
dedupe_prepends(items, seen, new_items) ==
    IF items = << >> THEN [ new |-> new_items, seen_set |-> seen ]
    ELSE IF sha(Head(items)) \notin seen
         THEN dedupe_prepends(Tail(items), seen \cup { sha(Head(items)) },
                              << Head(items) >> \o new_items)
         ELSE dedupe_prepends(Tail(items), seen, new_items)

\* the de-dupe loop of main: for it in all_items: ...
RECURSIVE dedupe_loop(_, _, _)
dedupe_loop(items, seen, new_items) ==
    IF items = << >> THEN [ new |-> new_items, seen_set |-> seen ]
    ELSE LET it  == Head(items)
             key == sha(it)
         IN  IF key \notin seen
             THEN dedupe_loop(Tail(items), seen \cup { key }, Append(new_items, it))
             ELSE dedupe_loop(Tail(items), seen, new_items)

\* the branch without the test of no_new_notified
Branch_ignores_flag(new_items, flag) ==
    IF new_items = << >> THEN "idle" ELSE "new"

\* the branch main takes after the loop: the one-time idle notice, nothing,
\* or the alert
Branch(new_items, flag) ==
    IF new_items = << >> THEN (IF ~flag THEN "idle" ELSE "quiet") ELSE "new"

\* s[:n]
Take(s, n) == IF Len(s) <= n THEN s ELSE SubSeq(s, 1, n)

UnknownCompany ==
    << "U", "n", "k", "n", "o", "w", "n", " ", "C", "o", "m", "p", "a", "n", "y" >>
Role == << "R", "o", "l", "e" >>
MoreNewRoles ==
    << " ", "m", "o", "r", "e", " ", "n", "e", "w", " ", "r", "o", "l", "e", "s", ")" >>

\* one element of `lines`: the bullet line, then the url on a line of its
\* own; location and posted are left out when empty
EntryOf(i) ==
    [ category |-> IF i.category = "" THEN "?" ELSE i.category,
      source   |-> IF i.source = "" THEN "?" ELSE i.source,
      company  |-> IF Take(i.company, 40) = << >> THEN UnknownCompany
                   ELSE Take(i.company, 40),
      title    |-> IF Take(i.title, 70) = << >> THEN Role ELSE Take(i.title, 70),
      location |-> i.location,
      posted   |-> i.posted,
      url      |-> i.url ]

\* the body with the tail line also when exactly BATCH_CAP records are new
compose_tail_at_cap(new_items) ==
    LET batch == Take(new_items, BATCH_CAP)
    IN  [ entries |-> [ k \in 1..Len(batch) |-> EntryOf(batch[k]) ],
          tail    |-> IF Len(new_items) < BATCH_CAP THEN << >>
                      ELSE << "(", "+" >> \o Decimal(Len(new_items) - BATCH_CAP)
                           \o MoreNewRoles ]

\* main, lines 462-473: the body between "New internships:" and "Reply STOP
\* to opt out."; tail is the line after the entries, << >> when there is none
compose(new_items) ==
    LET batch == Take(new_items, BATCH_CAP)
    IN  [ entries |-> [ k \in 1..Len(batch) |-> EntryOf(batch[k]) ],
          tail    |-> IF Len(new_items) <= BATCH_CAP THEN << >>
                      ELSE << "(", "+" >> \o Decimal(Len(new_items) - BATCH_CAP)
                           \o MoreNewRoles ]

\* TEST_NOTIFY is read from the environment at import; it is unset here
TEST_NOTIFY == FALSE
TestItem ==
    normalize_item("Intern Bot", "Test",
                   << "T", "e", "s", "t", " ", "N", "o", "t", "i", "f", "i", "c", "a", "t", "i", "o", "n" >>,
                   << "h", "t", "t", "p", "s", ":", "/", "/", "e", "x", "a", "m", "p", "l", "e", ".",
                      "c", "o", "m" >>,
                   << "D", "e", "m", "o", "C", "o" >>, << >>, << >>)

(* ------------------------------ transports ----------------------------- *)
\* twilio_send: every recipient is tried inside its own try/except.
\* outcome[k] is "ok" or "error" (requests.post raised) for recipient k.
twilio_send(configured, n, outcome) ==
    IF ~configured \/ n = 0
    THEN [ skipped |-> TRUE, raised |-> FALSE, tried |-> {}, failed |-> {} ]
    ELSE [ skipped |-> FALSE, raised |-> FALSE, tried |-> 1..n,
           failed |-> { k \in 1..n : outcome[k] = "error" } ]

\* email_send: int(SMTP_PORT) is evaluated before anything else and outside
\* the try; one try/except wraps the session and the loop over recipients, so
\* the first failure ends the loop.
email_send(port_ok, configured, n, connect, outcome) ==
    IF ~port_ok
    THEN [ skipped |-> FALSE, raised |-> TRUE, connected |-> FALSE, tried |-> {}, failed |-> {} ]
    ELSE IF ~configured \/ n = 0
    THEN [ skipped |-> TRUE, raised |-> FALSE, connected |-> FALSE, tried |-> {}, failed |-> {} ]
    ELSE IF connect = "error"
    THEN [ skipped |-> FALSE, raised |-> FALSE, connected |-> FALSE, tried |-> {}, failed |-> {} ]
    ELSE LET bad   == { k \in 1..n : outcome[k] = "error" }
             first == IF bad = {} THEN n ELSE CHOOSE k \in bad : \A j \in bad : k <= j
         IN  [ skipped |-> FALSE, raised |-> FALSE, connected |-> TRUE,
               tried |-> 1..first, failed |-> bad \cap (1..first) ]

SmsNotCalled == [ called |-> FALSE, skipped |-> FALSE, tried |-> {}, failed |-> {} ]
EmailNotCalled ==
    [ called |-> FALSE, skipped |-> FALSE, connected |-> FALSE, tried |-> {}, failed |-> {} ]

(* ------------------------------- state --------------------------------- *)
VARIABLES
    disk,             \* seen.json
    pc,               \* where main() is
    web,              \* what the sites list during this run
    seen_set,         \* main's seen_set
    no_new_notified,  \* main's no_new_notified
    all_items,        \* main's all_items
    new,              \* main's new
    tab,              \* index of the loop over IL_TABS
    branch,           \* "none" before the de-dupe, then "idle", "quiet" or "new"
    sms,              \* what twilio_send did in this run
    email,            \* what email_send did in this run
    save,             \* "not_called", "called", "opened", "written", "open_failed", "dump_failed"
    failed,           \* history: the sources that failed in this run
    faults,           \* history: failures injected into this run
    disk0,            \* history: seen.json when this run started
    everSaved,        \* history: fingerprints some save_state has written in full
    spell,            \* history: "start", "wet", "dry" after clean runs, else "broken"
    io,               \* history: calls of load_seen_set_and_flag and of save_state
                      \* in this run
    fin, fout         \* argument and result of a single call of fetch (SpecFetch)

vars == << disk, pc, web, seen_set, no_new_notified, all_items, new, tab, branch, sms,
           email, save, failed, faults, disk0, everSaved, spell, io, fin, fout >>

locals == << seen_set, no_new_notified, all_items, new, tab, branch >>
history == << disk0, everSaved, spell >>
callvars == << fin, fout >>

ReadmeSrc == NumTabs + 1
NoCalls == [ loads |-> 0, saves |-> 0 ]
Running == { "tabs", "readme", "dedup", "sms", "email", "save_open", "save_dump" }
\* main has returned ("done") or an exception has left it ("fatal")
Returned == { "done", "fatal" }
\* no process: before the first run, after an exit, after a kill
Stopped == { "idle", "exited", "killed" }

\* a deployment starts without a state file, or on a legacy list
LegacyFile == File("list", << sha(normalize_item("Intern List", IL_TABS[1], TitleOf(1),
                                                  UrlOf(1), CompanyOf(1), << >>,
                                                  << >>)) >>, FALSE)

Init ==
    /\ disk \in { MissingFile, LegacyFile }
    /\ pc = "idle"
    /\ web = [ m |-> 0, readme |-> FALSE ]
    /\ seen_set = {}
    /\ no_new_notified = FALSE
    /\ all_items = << >>
    /\ new = << >>
    /\ tab = 1
    /\ branch = "none"
    /\ sms = SmsNotCalled
    /\ email = EmailNotCalled
    /\ save = "not_called"
    /\ failed = {}
    /\ faults = 0
    /\ disk0 = disk
    /\ everSaved = {}
    /\ spell = "start"
    /\ io = NoCalls
    /\ fin = << >>
    /\ fout = << >>

\* the environment's inputs, one of each distinguishable kind
\* fetch of a tab: k attempts fail alike, then the server answers
TabPatterns ==
    { [ a \in 1..(RETRIES + 1) |-> IF a <= k THEN kind ELSE "ok" ] :
        k \in 0..(RETRIES + 1), kind \in { "timeout", "http_error" } }

ReadmeInputs ==
    [ first : { 1, 2, Len(GITHUB_OWNERS) * Len(GITHUB_REPOS) * Len(GITHUB_BRANCHES) + 1 },
      miss : { "timeout", "empty" }, badsec : 0..Len(SIMPLIFY_SECTIONS) ]
    \cup [ first : { NumReadmeUrls + 1 }, miss : { "timeout", "empty" }, badsec : { 0 } ]

AllOk == [ k \in 1..MaxRecipients |-> "ok" ]

SmsInputs ==
    [ configured : { TRUE }, outcome : [ 1..MaxRecipients -> { "ok", "error" } ] ]
    \cup [ configured : { FALSE }, outcome : { AllOk } ]

EmailInputs ==
    [ port_ok : { TRUE }, configured : { TRUE }, connect : { "ok" },
      outcome : [ 1..MaxRecipients -> { "ok", "error" } ] ]
    \cup [ port_ok : { TRUE }, configured : BOOLEAN, connect : { "error" }, outcome : { AllOk } ]
    \cup [ port_ok : { FALSE }, configured : { TRUE }, connect : { "ok" }, outcome : { AllOk } ]

(* main, lines 410-415: START run, twilio_self_check (a probe that only    *)
(* logs and swallows its own errors), load the state                       *)
StartOn(w) ==
    /\ pc \in Stopped
    /\ LET st == load_seen_set_and_flag(disk)
       IN  /\ web' = w
           /\ seen_set' = st.seen_set
           /\ no_new_notified' = st.no_new_notified
    /\ all_items' = << >>
    /\ new' = << >>
    /\ tab' = 1
    /\ branch' = "none"
    /\ sms' = SmsNotCalled
    /\ email' = EmailNotCalled
    /\ save' = "not_called"
    /\ failed' = {}
    /\ faults' = 0
    /\ disk0' = disk
    /\ pc' = IF load_seen_set_and_flag(disk).raised THEN "fatal" ELSE "tabs"
    /\ io' = [ loads |-> 1, saves |-> 0 ]
    /\ UNCHANGED << disk, everSaved, spell >>

\* a run starts; the sites list what they list at that time
StartRun == (\E w \in Webs : StartOn(w)) /\ UNCHANGED callvars

(* main, lines 418-424: one iteration of the loop over IL_TABS *)
FetchTab ==
    /\ pc = "tabs"
    /\ \E pattern \in TabPatterns, malformed \in BOOLEAN :
         LET page == TabPage(web, tab, malformed)
             got  == parse_intern_list_tab(IL_TABS[tab], tab, ResponsePlan(pattern, page))
             t    == main_try(got)
         IN  /\ got.raised => faults < MaxFaults
             /\ faults' = IF got.raised THEN faults + 1 ELSE faults
             /\ failed' = IF got.raised THEN failed \cup { tab } ELSE failed
             /\ IF t.abort
                THEN /\ pc' = "fatal"
                     /\ UNCHANGED << all_items, tab >>
                ELSE /\ all_items' = all_items \o t.items
                     /\ tab' = IF tab < NumTabs THEN tab + 1 ELSE tab
                     /\ pc' = IF tab < NumTabs THEN "tabs" ELSE "readme"
    /\ UNCHANGED << disk, web, seen_set, no_new_notified, new, branch, sms, email, save,
                    history, io, callvars >>

(* main, lines 427-432: the README *)
FetchReadme ==
    /\ pc = "readme"
    /\ \E in \in ReadmeInputs :
         LET got == parse_simplify_2026_age0(
                        ReadmeNet(ReadmeDoc(web, in.badsec), in.first, in.miss))
             bad == IF ~got.fetched THEN { ReadmeSrc }
                    ELSE IF in.badsec # 0 THEN { ReadmeSrc + in.badsec } ELSE {}
             t   == main_try(got)
         IN  /\ bad # {} => faults < MaxFaults
             /\ faults' = IF bad # {} THEN faults + 1 ELSE faults
             /\ failed' = failed \cup bad
             /\ IF t.abort
                THEN /\ pc' = "fatal"
                     /\ UNCHANGED all_items
                ELSE /\ all_items' = all_items \o t.items
                     /\ pc' = "dedup"
    /\ UNCHANGED << disk, web, seen_set, no_new_notified, new, tab, branch, sms, email, save,
                    history, io, callvars >>

\* the de-dupe step with the seen set written out as soon as it is known
Dedup_saves_early ==
    /\ pc = "dedup"
    /\ LET items == IF TEST_NOTIFY THEN Append(all_items, TestItem) ELSE all_items
           r     == dedupe_loop(items, seen_set, << >>)
           b     == Branch(r.new, no_new_notified)
       IN  /\ all_items' = items
           /\ new' = r.new
           /\ seen_set' = r.seen_set
           /\ branch' = b
           /\ no_new_notified' = IF b = "new" THEN FALSE ELSE no_new_notified
           /\ disk' = StateToDump(r.seen_set, no_new_notified)
           /\ pc' = IF b = "quiet" THEN "done" ELSE "sms"
    /\ UNCHANGED << web, tab, sms, email, save, failed, faults, history, io, callvars >>

(* main, lines 435-473: the test item, the de-dupe loop, the branch, the body *)
Dedup ==
    /\ pc = "dedup"
    /\ LET items == IF TEST_NOTIFY THEN Append(all_items, TestItem) ELSE all_items
           r     == dedupe_loop(items, seen_set, << >>)
           b     == Branch(r.new, no_new_notified)
       IN  /\ all_items' = items
           /\ new' = r.new
           /\ seen_set' = r.seen_set
           /\ branch' = b
           /\ no_new_notified' = IF b = "new" THEN FALSE ELSE no_new_notified
           /\ pc' = IF b = "quiet" THEN "done" ELSE "sms"
    /\ UNCHANGED << disk, web, tab, sms, email, save, failed, faults, history, io,
                    callvars >>

\* main with save_state called right after twilio_send
SmsSend_saves_first ==
    /\ pc = "sms"
    /\ \E in \in SmsInputs :
         LET r  == twilio_send(in.configured, MaxRecipients, in.outcome)
             nf == Cardinality(r.failed)
         IN  /\ faults + nf <= MaxFaults
             /\ faults' = faults + nf
             /\ sms' = [ called |-> TRUE, skipped |-> r.skipped, tried |-> r.tried,
                         failed |-> r.failed ]
    /\ pc' = "save_open"
    /\ save' = "called"
    /\ io' = [ io EXCEPT !.saves = @ + 1 ]
    /\ UNCHANGED << disk, web, locals, email, failed, history, callvars >>

(* main, lines 450 and 476: twilio_send(body) *)
SmsSend ==
    /\ pc = "sms"
    /\ \E in \in SmsInputs :
         LET r  == twilio_send(in.configured, MaxRecipients, in.outcome)
             nf == Cardinality(r.failed)
         IN  /\ faults + nf <= MaxFaults
             /\ faults' = faults + nf
             /\ sms' = [ called |-> TRUE, skipped |-> r.skipped, tried |-> r.tried,
                         failed |-> r.failed ]
             /\ pc' = IF r.raised THEN "fatal" ELSE "email"
    /\ UNCHANGED << disk, web, locals, email, save, failed, history, io, callvars >>

(* main, lines 451-453 and 477-480: email_send(subject, body), then the flag *)
EmailSend ==
    /\ pc = "email"
    /\ \E in \in EmailInputs :
         LET r  == email_send(in.port_ok, in.configured, MaxRecipients, in.connect, in.outcome)
             nf == Cardinality(r.failed)
                   + (IF r.raised \/ (~r.skipped /\ ~r.connected) THEN 1 ELSE 0)
         IN  /\ faults + nf <= MaxFaults
             /\ faults' = faults + nf
             /\ email' = [ called |-> TRUE, skipped |-> r.skipped, connected |-> r.connected,
                           tried |-> r.tried, failed |-> r.failed ]
             /\ IF r.raised
                THEN /\ pc' = "fatal"
                     /\ UNCHANGED << no_new_notified, save, io >>
                ELSE /\ pc' = "save_open"
                     /\ save' = "called"
                     /\ io' = [ io EXCEPT !.saves = @ + 1 ]
                     /\ no_new_notified' = IF branch = "idle" THEN TRUE ELSE no_new_notified
    /\ UNCHANGED << disk, web, seen_set, all_items, new, tab, branch, sms, failed, history,
                    callvars >>

(* save_state, lines 107-109: build the object, open(SEEN_PATH, "w") *)
SaveOpen ==
    /\ pc = "save_open"
    /\ \/ /\ disk' = EmptyFile
          /\ save' = "opened"
          /\ pc' = "save_dump"
          /\ UNCHANGED faults
       \/ /\ faults < MaxFaults
          /\ faults' = faults + 1
          /\ save' = "open_failed"
          /\ pc' = "done"
          /\ UNCHANGED disk
    /\ UNCHANGED << web, locals, sms, email, failed, history, io, callvars >>

(* save_state, lines 110-112: json.dump and the close of the file *)
SaveDump ==
    /\ pc = "save_dump"
    /\ \/ /\ disk' = StateToDump(seen_set, no_new_notified)
          /\ save' = "written"
          /\ everSaved' = everSaved \cup seen_set
          /\ UNCHANGED faults
       \/ /\ faults < MaxFaults
          /\ faults' = faults + 1
          /\ disk' \in { EmptyFile, PartialFile }
          /\ save' = "dump_failed"
          /\ UNCHANGED everSaved
    /\ pc' = "done"
    /\ UNCHANGED << web, locals, sms, email, failed, disk0, spell, io, callvars >>

\* nothing of a process that is gone remains but the file
Gone ==
    /\ web' = [ m |-> 0, readme |-> FALSE ]
    /\ seen_set' = {}
    /\ no_new_notified' = FALSE
    /\ all_items' = << >>
    /\ new' = << >>
    /\ tab' = 1
    /\ branch' = "none"
    /\ sms' = SmsNotCalled
    /\ email' = EmailNotCalled
    /\ failed' = {}
    /\ faults' = 0

\* how a run that returned counts for the runs after it: clean runs make the
\* spell "wet" (records were new) or "dry" (none was); anything else breaks it
SpellAfter ==
    IF spell = "broken" \/ pc # "done" \/ save \in { "open_failed", "dump_failed" }
       \/ disk0.kind \in { "empty", "partial" }
    THEN "broken"
    ELSE IF new = << >> THEN "dry" ELSE "wet"

(* lines 483-488: main returned, or FATAL and sys.exit(1); the process ends *)
Leave ==
    /\ pc \in Returned
    /\ pc' = "exited"
    /\ spell' = SpellAfter
    /\ Gone
    /\ UNCHANGED << disk, save, disk0, everSaved, io >>

Exit == Leave /\ UNCHANGED callvars

(* The process is stopped from outside (the job is cancelled, the runner    *)
(* dies).  A dump that was under way leaves the file empty or cut off.     *)
Stop ==
    /\ pc \in Running
    /\ pc' = "killed"
    /\ IF pc = "save_dump" THEN disk' \in { EmptyFile, PartialFile } ELSE UNCHANGED disk
    /\ spell' = "broken"
    /\ Gone
    /\ UNCHANGED << save, disk0, everSaved, io >>

Kill == Stop /\ UNCHANGED callvars

Next ==
    \/ StartRun
    \/ FetchTab
    \/ FetchReadme
    \/ Dedup
    \/ SmsSend
    \/ EmailSend
    \/ SaveOpen
    \/ SaveDump
    \/ Exit
    \/ Kill

Spec == Init /\ [][Next]_vars

(* ------------------- runs on storage of any content -------------------- *)
\* seen.json as something else than this program may have left it
InitStorage ==
    /\ disk \in { MissingFile, LegacyFile, ScalarFile, BadSeenFile }
    /\ pc = "idle"
    /\ web = [ m |-> 0, readme |-> FALSE ]
    /\ seen_set = {}
    /\ no_new_notified = FALSE
    /\ all_items = << >>
    /\ new = << >>
    /\ tab = 1
    /\ branch = "none"
    /\ sms = SmsNotCalled
    /\ email = EmailNotCalled
    /\ save = "not_called"
    /\ failed = {}
    /\ faults = 0
    /\ disk0 = disk
    /\ everSaved = {}
    /\ spell = "start"
    /\ io = NoCalls
    /\ fin = << >>
    /\ fout = << >>

SpecStorage == InitStorage /\ [][Next]_vars

(* ---------------------- fetch, one call at a time ---------------------- *)
\* what the server may answer to one attempt
FetchResponses ==
    [ ok : { TRUE }, text : { "page A", "page B" }, err : { NoError } ]
    \cup [ ok : { FALSE }, text : { "" }, err : { << "timeout", 0 >>, << "http_error", 0 >> } ]

FetchPlans == [ 1..(RETRIES + 1) -> FetchResponses ]

Pending == [ status |-> "pending" ]

InitFetch ==
    /\ fin \in [ url : 1..NumTabs, resp : FetchPlans ]
    /\ fout = Pending
    /\ disk = MissingFile
    /\ pc = "idle"
    /\ web = [ m |-> 0, readme |-> FALSE ]
    /\ seen_set = {}
    /\ no_new_notified = FALSE
    /\ all_items = << >>
    /\ new = << >>
    /\ tab = 1
    /\ branch = "none"
    /\ sms = SmsNotCalled
    /\ email = EmailNotCalled
    /\ save = "not_called"
    /\ failed = {}
    /\ faults = 0
    /\ disk0 = disk
    /\ everSaved = {}
    /\ spell = "start"
    /\ io = NoCalls

CallFetch ==
    /\ fout = Pending
    /\ fout' = fetch(fin.url, fin.resp)
    /\ UNCHANGED << fin, disk, pc, web, locals, sms, email, save, failed, faults, history,
                    io >>

SpecFetch == InitFetch /\ [][CallFetch]_vars

(* ------------------- the pure functions, one call each ----------------- *)
\* main is not running
Parked ==
    /\ disk = MissingFile
    /\ pc = "idle"
    /\ web = [ m |-> 0, readme |-> FALSE ]
    /\ seen_set = {}
    /\ no_new_notified = FALSE
    /\ all_items = << >>
    /\ new = << >>
    /\ tab = 1
    /\ branch = "none"
    /\ sms = SmsNotCalled
    /\ email = EmailNotCalled
    /\ save = "not_called"
    /\ failed = {}
    /\ faults = 0
    /\ disk0 = disk
    /\ everSaved = {}
    /\ spell = "start"
    /\ io = NoCalls

StaysParked ==
    UNCHANGED << disk, pc, web, locals, sms, email, save, failed, faults, history, io >>

(* sha: a record, one of its key fields padded with whitespace, one of its *)
(* other fields changed                                                    *)
Pads == { << >>, << " " >>, << "\t", "\n" >> }

ShaInputs ==
    [ company : { << >>, << "C", "o", " ", "1" >> },
      title   : { << "S", "W", "E" >>, << "P", "M", " ", "I", "n", "t", "e", "r", "n" >> },
      url     : { << "h", "t", "t", "p", ":", "/", "/", "a" >>,
                  << "h", "t", "t", "p", ":", "/", "/", "b" >> },
      field   : { "company", "title", "url" },
      lpad    : Pads,
      rpad    : Pads,
      other   : { "source", "category", "location", "posted" } ]

ShaItem(in) ==
    [ source |-> "Intern List", category |-> IL_TABS[1], title |-> in.title,
      company |-> in.company, location |-> << >>, url |-> in.url, posted |-> << >> ]

Padded(item, field, l, r) == [ item EXCEPT ![field] = l \o @ \o r ]

Relabelled(item, other) ==
    IF other = "posted" THEN [ item EXCEPT !.posted = << "0", "d" >> ]
    ELSE IF other = "location" THEN [ item EXCEPT !.location = << "N", "Y", "C" >> ]
    ELSE IF other = "source" THEN [ item EXCEPT !.source = "SimplifyJobs 2026" ]
    ELSE [ item EXCEPT !.category = IL_TABS[2] ]

InitSha ==
    /\ fin \in ShaInputs
    /\ fout = Pending
    /\ Parked

CallSha ==
    /\ fout = Pending
    /\ LET it == ShaItem(fin)
       IN  fout' = [ status     |-> "done",
                     base       |-> sha(it),
                     padded     |-> sha(Padded(it, fin.field, fin.lpad, fin.rpad)),
                     relabelled |-> sha(Relabelled(it, fin.other)) ]
    /\ UNCHANGED fin
    /\ StaysParked

SpecSha == InitSha /\ [][CallSha]_vars

(* _extract_cards_from_search on pages of up to MaxAnchors anchors *)
AnchorPool ==
    { Card(1),
      Anchor(<< "/", "a", "b", "o", "u", "t" >>, << "A", "b", "o", "u", "t" >>, << >>),
      NavAnchor(1),
      Anchor(<< "/", "p", "r", "i", "v", "a", "c", "y" >>, Intern, << >>),
      Anchor(<< "/", "J", "/", "I", "N", "T", "E", "R", "N" >>, << "R", "o", "l", "e" >>, << >>),
      Anchor(<< "/", "j", "/", "2" >>, << >>, << >>),
      Anchor(<< "h", "t", "t", "p", "s", ":", "/", "/", "e", ".", "c", "o", "/", "i", "n", "t",
                "e", "r", "n" >>, << "A", "p", "p", "l", "y" >>, << >>),
      Anchor(IL_BASE \o IL_TAB_QUERIES[4], << "P", "M", " ", "I", "n", "t", "e", "r", "n", "s" >>,
             << >>),
      Anchor(<< "h", "t", "t", "p", "-", "i", "n", "t", "e", "r", "n", "s", ".", "h", "t", "m",
                "l" >>, << "I", "n", "t", "e", "r", "n", "s" >>, << >>) }

InitCards ==
    /\ fin \in [ anchors : UNION { [ 1..n -> AnchorPool ] : n \in 1..MaxAnchors } ]
    /\ fout = Pending
    /\ Parked

CallCards ==
    /\ fout = Pending
    /\ LET got == _extract_cards_from_search([ raises |-> FALSE, anchors |-> fin.anchors ],
                                             IL_TABS[1])
       IN  fout' = [ status |-> "done", items |-> got.items ]
    /\ UNCHANGED fin
    /\ StaysParked

SpecCards == InitCards /\ [][CallCards]_vars

(* the alert body: n new records, taken from a ring of MaxNew records      *)
(* starting at `first`                                                     *)
ComposeKinds == { "tab", "readme", "bare" }

ComposeItem(j, kind) ==
    IF kind = "tab"
    THEN normalize_item("Intern List", IL_TABS[TabOf(j)],
                        << "S", "W", "E", " " >> \o Decimal(j),
                        << "h", "t", "t", "p", "s", ":", "/", "/", "x", "/" >> \o Decimal(j),
                        << "C", "o" >> \o Decimal(j), << >>, << >>)
    ELSE IF kind = "readme"
    THEN normalize_item("SimplifyJobs 2026", SIMPLIFY_SECTIONS[1],
                        [ k \in 1..72 |-> "t" ] \o Decimal(j),
                        << "h", "t", "t", "p", "s", ":", "/", "/", "x", "/" >> \o Decimal(j),
                        [ k \in 1..42 |-> "c" ] \o Decimal(j), << "N", "Y", "C" >>,
                        << "0", "d" >>)
    ELSE normalize_item("Intern List", IL_TABS[TabOf(j)], << >>,
                        << "h", "t", "t", "p", "s", ":", "/", "/", "x", "/" >> \o Decimal(j),
                        << >>, << >>, << >>)

NewOf(in) ==
    [ k \in 1..in.n |-> ComposeItem(((in.first + k - 2) % MaxNew) + 1, in.kind) ]

InitCompose ==
    /\ fin \in [ n : 1..MaxNew, first : 1..MaxNew, kind : ComposeKinds ]
    /\ fout = Pending
    /\ Parked

CallCompose ==
    /\ fout = Pending
    /\ LET body == compose(NewOf(fin))
       IN  fout' = [ status |-> "done", entries |-> body.entries, tail |-> body.tail ]
    /\ UNCHANGED fin
    /\ StaysParked

SpecCompose == InitCompose /\ [][CallCompose]_vars

(* parse_simplify_2026_age0 on documents of up to MaxDocLines lines: the     *)
(* headings of two tables, a second heading over the first table, a          *)
(* sub-heading, and rows posted today (no header row, so the rows are kept   *)
(* by the rule for tables without an Age column)                             *)
SectionLines ==
    { README_HEADINGS[2],
      README_HEADINGS[2] \o << " ", "(", "c", "l", "o", "s", "e", "d", ")" >>,
      README_HEADINGS[3],
      << "#", "#", "#", " ", "N", "o", "t", "e", "s" >>,
      Row(1), Row(2) }

\* the document as the first README URL serves it
DocNet(lines) ==
    ReadmeNet([ nonempty |-> lines # << >>, badsec |-> 0, lines |-> lines ], 1, "empty")

InitSection ==
    /\ fin \in [ lines : UNION { [ 1..n -> SectionLines ] : n \in 0..MaxDocLines } ]
    /\ fout = Pending
    /\ Parked

CallSection ==
    /\ fout = Pending
    /\ fout' = [ status |-> "done", items |-> parse_simplify_2026_age0(DocNet(fin.lines)).items ]
    /\ UNCHANGED fin
    /\ StaysParked

SpecSection == InitSection /\ [][CallSection]_vars

(* parse_simplify_2026_age0 on one table of up to MaxRows data rows, under   *)
(* a header with or without an Age column.  A row is described by what its   *)
(* Age cell reads, whether its Application cell holds a link, and a few      *)
(* shapes without an Age cell.                                               *)
AgeKinds ==
    { "0d", "5d", "10d", "bold0d", "spaced0d", "5d_loc0d", "none", "none_loc0d" }

RowKinds == [ age : AgeKinds, link : BOOLEAN ] \cup { [ age |-> "short", link |-> TRUE ] }

\* what the Age cell of a row reads
AgeText(age) ==
    CASE age = "0d"       -> ZeroDays
      [] age = "5d"       -> << "5", "d" >>
      [] age = "10d"      -> << "1", "0", "d" >>
      [] age = "bold0d"   -> << "*", "*", "0", "d", "*", "*" >>
      [] age = "spaced0d" -> << "1", "w", " ", "0", "d" >>
      [] age = "5d_loc0d" -> << "5", "d" >>

ApplyCell(j, link) ==
    IF link THEN << "[", "A", "p", "p", "l", "y", "]", "(" >> \o UrlOf(j) \o << ")" >>
    ELSE << "A", "p", "p", "l", "y" >>

\* the j-th data row, of the given kind; its link, if any, is UrlOf(j)
AgeRow(j, kind) ==
    LET loc == IF kind.age \in { "5d_loc0d", "none_loc0d" } THEN ZeroDays ELSE << "N", "A" >>
    IN  IF kind.age = "short"
        THEN TableLine(<< CompanyOf(j), ZeroDays, ApplyCell(j, kind.link) >>)
        ELSE IF kind.age \in { "none", "none_loc0d" }
        THEN TableLine(<< CompanyOf(j), TitleOf(j), loc, ApplyCell(j, kind.link) >>)
        ELSE TableLine(<< CompanyOf(j), TitleOf(j), loc, ApplyCell(j, kind.link),
                          AgeText(kind.age) >>)

\* the header of a table without an Age column, and its separator
TableHeadNoAge ==
    << TableLine(<< << "C", "o", "m", "p", "a", "n", "y" >>, << "R", "o", "l", "e" >>,
                    << "L", "o", "c", "a", "t", "i", "o", "n" >>,
                    << "A", "p", "p", "l", "i", "c", "a", "t", "i", "o", "n" >> >>),
       << "|", "-", "-", "-", "|", "-", "-", "-", "|", "-", "-", "-", "|", "-", "-", "-", "|" >> >>

AgeDoc(in) ==
    << README_HEADINGS[2] >> \o (IF in.head_age THEN TableHead ELSE TableHeadNoAge)
    \o [ j \in 1..Len(in.rows) |-> AgeRow(j, in.rows[j]) ]

InitAge ==
    /\ fin \in [ head_age : BOOLEAN,
                 rows : UNION { [ 1..n -> RowKinds ] : n \in 0..MaxRows } ]
    /\ fout = Pending
    /\ Parked

CallAge ==
    /\ fout = Pending
    /\ fout' = [ status |-> "done", items |-> parse_simplify_2026_age0(DocNet(AgeDoc(fin))).items ]
    /\ UNCHANGED fin
    /\ StaysParked

SpecAge == InitAge /\ [][CallAge]_vars

(* runs of main, one after another, over sites that list the same postings  *)
(* every time, more of them than one alert itemizes.  fin is what the sites  *)
(* list; fout keeps, of the runs that are over, how the last one went and    *)
(* the fingerprints that some run has stored for records its alert counted  *)
(* in the "(+N more new roles)" line.                                        *)
\* the fingerprints of the records this run's alert left out, once
\* save_state has written them
BeyondCap ==
    IF pc = "done" /\ save = "written" /\ branch = "new"
    THEN { sha(new[i]) : i \in (BATCH_CAP + 1)..Len(new) } ELSE {}

InitBatch ==
    /\ fin \in [ web : BatchWebs ]
    /\ fout = [ last |-> [ complete |-> FALSE, new |-> 0 ], beyond |-> {} ]
    /\ Parked

StartBatchRun == StartOn(fin.web) /\ UNCHANGED callvars

\* the run returns: it was complete when every source was fetched and
\* save_state wrote the file
ExitBatch ==
    /\ Leave
    /\ fout' = [ last   |-> [ complete |-> pc = "done" /\ save = "written" /\ failed = {},
                              new      |-> Len(new) ],
                 beyond |-> fout.beyond \cup BeyondCap ]
    /\ UNCHANGED fin

KillBatch ==
    /\ Stop
    /\ fout' = [ last |-> [ complete |-> FALSE, new |-> 0 ], beyond |-> fout.beyond ]
    /\ UNCHANGED fin

NextBatch ==
    \/ StartBatchRun
    \/ FetchTab
    \/ FetchReadme
    \/ Dedup
    \/ SmsSend
    \/ EmailSend
    \/ SaveOpen
    \/ SaveDump
    \/ ExitBatch
    \/ KillBatch

SpecBatch == InitBatch /\ [][NextBatch]_vars

(* ------------------------------- claims -------------------------------- *)
\* the fingerprints a state file holds
FileFps(file) == IF file.kind \in { "list", "dict" } THEN SetOf(file.seen) ELSE {}

\* C1: once a run has persisted a fingerprint, no later run classifies a
\* record with that fingerprint as new.
C1_NeverReemitted ==
    save # "written" => \A k \in 1..Len(new) : sha(new[k]) \notin everSaved

\* C2: in a sequence of completed runs with the state saved and reloaded, a
\* run with zero new records takes the idle branch, and calls both senders,
\* exactly when no completed run came before it or the last one found new
\* records; a run with new records that saves leaves the flag false on disk.
C2_IdleOncePerDrySpell ==
    (spell # "broken" /\ branch # "none") =>
        /\ new = << >> => (branch = "idle" <=> spell \in { "start", "wet" })
        /\ (new = << >> /\ pc = "done") =>
              ((sms.called /\ email.called) <=> spell \in { "start", "wet" })
        /\ (new # << >> /\ save = "written") =>
              (disk.kind = "dict" /\ disk.no_new_notified = FALSE)

\* a second zero-new run in a row stays quiet
C2_Witness ==
    spell = "dry" /\ branch = "quiet" /\ pc = "done" /\ disk0.no_new_notified

\* the places of all_items whose record is the first with its fingerprint
\* and whose fingerprint was not in the seen set
FirstUnseen(items, seen0) ==
    { j \in 1..Len(items) :
        /\ sha(items[j]) \notin seen0
        /\ \A k \in 1..(j - 1) : sha(items[k]) # sha(items[j]) }

\* the records at the places J, in order
AtPlaces(items, J) ==
    [ n \in 1..Cardinality(J) |->
        items[CHOOSE j \in J : Cardinality({ i \in J : i <= j }) = n] ]

\* C3 as stated: the first de-dupe classifies every record as new, a second
\* one over the same records with the seen set carried forward none.
C3_AllNewThenNone ==
    branch # "none" =>
        /\ new = all_items
        /\ dedupe_loop(all_items, seen_set, << >>).new = << >>

\* C3 as amended: the first de-dupe classifies as new exactly the records
\* that are the first with their fingerprint in arrival order and whose
\* fingerprint was not in the seen set; a second one with the seen set
\* carried forward classifies none as new.
C3_FirstUnseenThenNone ==
    branch # "none" =>
        /\ new = AtPlaces(all_items, FirstUnseen(all_items,
                                                load_seen_set_and_flag(disk0).seen_set))
        /\ dedupe_loop(all_items, seen_set, << >>).new = << >>

\* some record is new and some is not
C3_Witness ==
    branch = "new" /\ Len(new) < Len(all_items)

\* C4: every fingerprint in storage before a run is in storage after it.
C4_StorageOnlyGrows ==
    pc \in Returned \cup Stopped => FileFps(disk0) \subseteq FileFps(disk)

\* C5: as long as save_state has not been called the file is what it was
\* when the run started, wherever the run stops; and a run from the file as
\* it is now, over the same records, finds the same records new and takes
\* the same branch.
C5_StopBeforeSaveChangesNothing ==
    save = "not_called" =>
        /\ disk = disk0
        /\ branch # "none" =>
              LET st == load_seen_set_and_flag(disk)
                  r  == dedupe_loop(all_items, st.seen_set, << >>)
              IN  /\ r.new = new
                  /\ Branch(r.new, st.no_new_notified) = branch

\* a run over a saved state is killed before save_state
C5_Witness ==
    pc = "killed" /\ save = "not_called" /\ disk0.kind = "dict" /\ FileFps(disk0) # {}

\* C6: wherever the process stops, the file is the complete state from
\* before the run or the complete state the run wrote.
C6_AllOrNothing ==
    pc \in Stopped =>
        \/ disk = disk0
        \/ save = "written" /\ disk.kind = "dict"

\* what the sources contribute when the sources in F fail
RECURSIVE TabsExpected(_, _, _)
TabsExpected(w, F, i) ==
    IF i > NumTabs THEN << >>
    ELSE (IF i \in F THEN << >>
          ELSE _extract_cards_from_search(TabPage(w, i, FALSE), IL_TABS[i]).items)
         \o TabsExpected(w, F, i + 1)

RECURSIVE ReadmeExpected(_, _, _)
ReadmeExpected(w, F, k) ==
    IF k > Len(SIMPLIFY_SECTIONS) \/ ReadmeSrc \in F THEN << >>
    ELSE (IF ReadmeSrc + k \in F THEN << >> ELSE SectionItems(ReadmeDoc(w, 0), k))
         \o ReadmeExpected(w, F, k + 1)

\* C7: a source that fails contributes nothing and ends nothing: all_items
\* at the de-dupe is what the other sources list, in source order, every
\* such record is in the seen set after the de-dupe, the run that returns
\* has notified and called save_state unless it had nothing to say, and no
\* exception leaves main before email_send.
C7_SourceFailureIsolated ==
    LET expected == TabsExpected(web, failed, 1) \o ReadmeExpected(web, failed, 1)
    IN  /\ pc = "dedup" => all_items = expected
        /\ branch # "none" =>
              \A k \in 1..Len(expected) : sha(expected[k]) \in seen_set
        /\ (pc = "done" /\ branch # "quiet") =>
              (sms.called /\ email.called /\ save # "not_called")
        /\ pc = "fatal" => email.called

\* a source failed and the run has notified and saved what another listed
C7_Witness ==
    pc = "done" /\ failed # {} /\ new # << >> /\ save = "written"

\* C8: fetch makes at most RETRIES+1 attempts, returns the text of the first
\* attempt that succeeds, and raises, with the last attempt's error, exactly
\* when all RETRIES+1 attempts fail.
C8_FetchRetries ==
    fout # Pending =>
        LET resp == fin.resp
            allFail == \A k \in 1..(RETRIES + 1) : ~resp[k].ok
        IN  /\ fout.status \in { "return", "raise" }
            /\ fout.attempts \in 1..(RETRIES + 1)
            /\ fout.status = "return" =>
                  /\ resp[fout.attempts].ok
                  /\ \A k \in 1..(fout.attempts - 1) : ~resp[k].ok
                  /\ fout.text = resp[fout.attempts].text
            /\ fout.status = "raise" <=> allFail
            /\ fout.status = "raise" =>
                  /\ fout.attempts = RETRIES + 1
                  /\ fout.last_err = resp[RETRIES + 1].err

\* fetch returned at the last attempt, after RETRIES failures
C8_Witness ==
    fout # Pending /\ fout.status = "return" /\ fout.attempts = RETRIES + 1

\* a configured email_send did not get its mail out: the call ended before
\* the SMTP session was open, or a recipient failed
EmailFailed == email.called /\ ~email.skipped /\ (~email.connected \/ email.failed # {})

\* C9: a failure of the SMS or of the email transport prevents neither the
\* attempt on the other channel nor the call of save_state: a run of main
\* that is over, by a return or by an exception, and in which an SMS or the
\* email failed, has called both senders and save_state.
C9_TransportFailureSwallowed ==
    /\ (sms.failed # {} /\ pc \in Returned) => email.called
    /\ (EmailFailed /\ pc \in Returned) => sms.called
    /\ ((sms.failed # {} \/ EmailFailed) /\ pc \in Returned) => save # "not_called"

\* C10: in each channel every configured recipient is tried, whatever
\* happens to the others.
C10_EveryRecipientTried ==
    /\ (sms.called /\ ~sms.skipped) => sms.tried = 1..MaxRecipients
    /\ (email.called /\ email.connected) => email.tried = 1..MaxRecipients

\* C11: loading and saving the state never ends the run: from a missing
\* file, a file that does not parse and a file that parses to something that
\* is not a state, the run goes on with the empty seen set and the flag
\* false; a run whose save fails still returns normally.
C11_StorageNeverFatal ==
    /\ (pc \notin Stopped /\ branch = "none"
        /\ disk0.kind \in { "missing", "empty", "partial", "scalar", "dict_bad_seen" })
          => (pc # "fatal" /\ seen_set = {} /\ ~no_new_notified)
    /\ (pc \in Returned /\ save \in { "open_failed", "dump_failed" }) => pc = "done"

\* C12: what a completed save_state wrote loads back as the seen set and the
\* flag that were saved; a legacy list loads as its set with the flag false;
\* a run on a legacy list that returns has called save_state, and when that
\* wrote the file, the file is the two-field object and holds every legacy
\* fingerprint.
C12_RoundTripAndLegacy ==
    /\ (pc = "done" /\ save = "written") =>
          LET st == load_seen_set_and_flag(disk)
          IN  /\ ~st.raised
              /\ st.seen_set = seen_set
              /\ st.no_new_notified = no_new_notified
    /\ (disk0.kind = "list" /\ pc \in { "tabs", "readme", "dedup" }) =>
          (seen_set = SetOf(disk0.seen) /\ ~no_new_notified)
    /\ (disk0.kind = "list" /\ pc = "done") => save # "not_called"
    /\ (disk0.kind = "list" /\ pc = "done" /\ save = "written") =>
          (disk.kind = "dict" /\ SetOf(disk0.seen) \subseteq SetOf(disk.seen))

\* a run on a legacy list has found a new record and saved
C12_Witness ==
    /\ disk0.kind = "list" /\ disk0.seen # << >>
    /\ pc = "done" /\ save = "written" /\ new # << >>
    /\ disk.kind = "dict" /\ Len(disk.seen) > Len(disk0.seen)

\* C18: a run that returns has read the file once, before anything else, and
\* has called save_state once, as its last step, in each of the three
\* branches: new records, no new records and the notice not yet sent, no new
\* records and the notice already sent.
C18_ReadOnceWriteOnce ==
    /\ pc \in Running \cup Returned => io.loads = 1
    /\ (pc \notin Stopped /\ io.saves > 0) => pc \in { "save_open", "save_dump", "done" }
    /\ pc = "done" => io.saves = 1

\* the place of a record's source in the order main goes through them
SourceRank(it) ==
    IF it.source = "Intern List"
    THEN CHOOSE i \in 1..NumTabs : IL_TABS[i] = it.category
    ELSE NumTabs + 1

\* C19: the records arrive tab by tab in the configured order and then from
\* the README; of the records with one fingerprint only the first to arrive
\* is new, and the new records are in the order in which they arrived.
C19_FirstSourceWins ==
    branch # "none" =>
        /\ \A i, j \in 1..Len(all_items) :
              i < j => SourceRank(all_items[i]) <= SourceRank(all_items[j])
        /\ \A i, j \in 1..Len(new) : i # j => sha(new[i]) # sha(new[j])
        /\ \A k \in 1..Len(new) :
              \E p \in 1..Len(all_items) :
                 /\ all_items[p] = new[k]
                 /\ \A q \in 1..(p - 1) : sha(all_items[q]) # sha(new[k])
                 /\ \A l \in 1..(k - 1) :
                       \E q \in 1..(p - 1) : sha(all_items[q]) = sha(new[l])

\* a tab and the README list the same two postings: two new records, the
\* tabs' ones
C19_Witness ==
    /\ branch = "new" /\ Len(new) = 2 /\ Len(all_items) = 4
    /\ \A k \in 1..2 : new[k].source = "Intern List"
    /\ \E q \in 3..4 : all_items[q].source # "Intern List"
                          /\ sha(all_items[q]) = sha(new[1])

\* C20: within a run save_state is called, and the file differs from the one
\* loaded, only after twilio_send and email_send have both been called.
C20_SaveAfterBothSends ==
    (pc \notin Stopped /\ (save # "not_called" \/ io.saves > 0 \/ disk # disk0))
        => (sms.called /\ email.called)

\* the idle notice went out with a failed SMS and the flag is saved
C20_Witness ==
    /\ pc = "done" /\ branch = "idle" /\ save = "written"
    /\ sms.called /\ sms.failed # {} /\ email.called
    /\ disk.no_new_notified /\ ~disk0.no_new_notified

\* C13: the fingerprint is the key of the trimmed company, title and url:
\* whitespace around any of the three does not change it, and neither does
\* another source, category, location or posted.
C13_ShaOfTrimmedKey ==
    fout # Pending =>
        /\ fout.base = fin.company \o << "|" >> \o fin.title \o << "|" >> \o fin.url
        /\ fout.padded = fout.base
        /\ fout.relabelled = fout.base

\* the url came with whitespace on both sides
C13_Witness ==
    /\ fout # Pending /\ fin.field = "url" /\ fin.lpad # << >> /\ fin.rpad # << >>
    /\ fout.padded = fout.base

Min(a, b) == IF a <= b THEN a ELSE b

\* C14: the body of an alert for n >= 1 new records has min(n, 6) entries,
\* those of the first records in arrival order, and the line "(+N more new
\* roles)" with N = n - 6 exactly when n > 6; 9 new records give 6 entries
\* and "(+3 more new roles)".
C14_BodyCapsAtSix ==
    fout # Pending =>
        LET n == fin.n
            arrived == NewOf(fin)
        IN  /\ Len(fout.entries) = Min(n, 6)
            /\ \A k \in 1..Len(fout.entries) : fout.entries[k].url = arrived[k].url
            /\ fout.tail # << >> <=> n > 6
            /\ n > 6 => fout.tail = << "(", "+" >> \o Decimal(n - 6) \o MoreNewRoles
            /\ n = 9 => /\ Len(fout.entries) = 6
                        /\ fout.tail = << "(", "+", "3" >> \o MoreNewRoles

\* nine new records
C14_Witness ==
    /\ fout # Pending /\ fin.n = 9 /\ Len(fout.entries) = 6
    /\ fout.tail = << "(", "+", "3" >> \o MoreNewRoles

Absolute(url) ==
    \/ StartsWith(url, << "h", "t", "t", "p", ":", "/", "/" >>)
    \/ StartsWith(url, << "h", "t", "t", "p", "s", ":", "/", "/" >>)

\* C15: every record an extractor returns has a url that is not empty and
\* begins with http:// or https://, whatever the page.
C15_UrlAbsolute ==
    fout # Pending =>
        \A k \in 1..Len(fout.items) :
            fout.items[k].url # << >> /\ Absolute(fout.items[k].url)

\* the "## " headings of category k: their normalized text contains the
\* category's fragment
HeadingsOf(lines, k) ==
    { i \in 1..Len(lines) :
        /\ StartsWith(lines[i], H2)
        /\ Contains(_norm(strip(lstrip_of(lines[i], { "#", " " }))), _norm(SIMPLIFY_PHRASES[k])) }

\* the lines after the first heading of category k and before the next
\* "## " heading
FirstSection(lines, k) ==
    IF HeadingsOf(lines, k) = {} THEN {}
    ELSE LET h == CHOOSE i \in HeadingsOf(lines, k) : \A j \in HeadingsOf(lines, k) : i <= j
         IN  { i \in (h + 1)..Len(lines) :
                 \A j \in (h + 1)..i : ~StartsWith(lines[j], H2) }

\* C16: a table row is attributed to a category only if it lies after the
\* first "## " heading whose normalized text contains the category's
\* fragment and before the next "## " heading: the records of category k
\* with the url of posting n are no more than the rows of posting n in that
\* stretch of the document.
C16_RowsWithinFirstSection ==
    fout # Pending =>
        \A k \in 1..Len(SIMPLIFY_SECTIONS) : \A n \in 1..NumPostings :
            Cardinality({ j \in 1..Len(fout.items) :
                            /\ fout.items[j].category = SIMPLIFY_SECTIONS[k]
                            /\ fout.items[j].url = UrlOf(n) })
              <= Cardinality({ i \in FirstSection(fin.lines, k) : fin.lines[i] = Row(n) })

\* the j-th row of the table was kept: a record carries its link
Kept(j) == \E i \in 1..Len(fout.items) : fout.items[i].url = UrlOf(j)

\* the row has an Age cell (a fifth cell), and the cell normalizes to "0d"
AgeCellIs0d(kind) == kind.age \in { "0d", "bold0d" }

\* some cell of the row is "0d"
SomeCellEquals0d(kind) == kind.age \in { "0d", "5d_loc0d", "none_loc0d", "short" }

\* some cell of the row normalizes to "0d", or to a text that holds " 0d"
SomeCellIs0d(kind) ==
    kind.age \in { "0d", "bold0d", "spaced0d", "5d_loc0d", "none_loc0d", "short" }

\* the row has four cells or more
FourCells(kind) == kind.age # "short"

\* the row reaches the Age column of the header (the fifth)
HasAgeCell(kind) == kind.age \notin { "none", "none_loc0d", "short" }

\* C17 as stated: under a header with an Age column a data row is kept
\* exactly when its Age cell normalizes to "0d"; under a header without one,
\* a row with some cell equal to "0d" is kept.
C17_KeptIffAge0d ==
    fout # Pending =>
        \A j \in 1..Len(fin.rows) :
            IF fin.head_age THEN Kept(j) <=> AgeCellIs0d(fin.rows[j])
            ELSE SomeCellEquals0d(fin.rows[j]) => Kept(j)

\* C17, amended: among the data rows with four cells or more and a link in
\* the fourth, a row is kept exactly when its Age cell normalizes to "0d" if
\* the header has an Age column and the row reaches it, and otherwise
\* exactly when some cell of it normalizes to "0d" or to a text holding
\* " 0d"; no other row is kept, and every kept row yields one record.
C17_LinkedRowKeptIffAge0d ==
    fout # Pending =>
        /\ \A j \in 1..Len(fin.rows) :
              Kept(j) <=>
                  /\ FourCells(fin.rows[j]) /\ fin.rows[j].link
                  /\ IF fin.head_age /\ HasAgeCell(fin.rows[j])
                     THEN AgeCellIs0d(fin.rows[j])
                     ELSE SomeCellIs0d(fin.rows[j])
        /\ Len(fout.items) = Cardinality({ j \in 1..Len(fin.rows) : Kept(j) })

\* under a header with an Age column, a linked row aged 5d is dropped and a
\* linked row aged 0d is kept
C17_Witness ==
    /\ fout # Pending /\ fin.head_age /\ Len(fin.rows) = 2
    /\ fin.rows[1] = [ age |-> "5d", link |-> TRUE ]
    /\ fin.rows[2] = [ age |-> "0d", link |-> TRUE ]
    /\ ~Kept(1) /\ Kept(2)

\* C21: a run with more new records than the batch cap, once save_state has
\* written the file, has stored the fingerprint of every new record, of the
\* itemized ones and of the others; the run that follows a run of that kind
\* that fetched every source, over the same source contents, finds no new
\* record; and no later alert itemizes a record whose fingerprint was
\* stored while its alert counted it in the "(+N more new roles)" line.
C21_BeyondCapNeverItemized ==
    /\ (pc = "done" /\ save = "written" /\ Len(new) > BATCH_CAP) =>
           /\ disk.kind = "dict"
           /\ \A i \in 1..Len(new) : sha(new[i]) \in SetOf(disk.seen)
    /\ (fout.last.complete /\ fout.last.new > BATCH_CAP /\ branch # "none") => new = << >>
    /\ branch = "new" =>
           \A i \in 1..Min(Len(new), BATCH_CAP) : sha(new[i]) \notin fout.beyond

====
